---- MODULE Spec2Model ----
(***************************************************************************)
(* Responsibility engine: the 15x15 responsibility matrix                  *)
(* (core/rules.py), the negotiation algorithm (core/negotiation.py) and    *)
(* the indemnification calculator (core/calculator.py).                    *)
(*                                                                         *)
(* Numbers.  The Python code computes in binary floating point.  The model *)
(* computes the same quantities exactly, as integer fractions:             *)
(*   - a severity weight w is held as 2*w (the table is in halves);        *)
(*   - a confidence c is held as 10*c (tenths);                            *)
(*   - an aggregated weight is held as a numerator over the denominator    *)
(*     20 * (number of contributing items).                                *)
(* Python's round() rounds an exact half to the even neighbour.  In the    *)
(* seed the divisions of the fixed weight table are exact wherever a half  *)
(* occurs, so the seed rounds half-to-even.  In a blend round the float    *)
(* factor 1.0 - 0.3 - 0.2 is 0.49999999999999994 and the accumulated       *)
(* rounding error decides which way a value that is mathematically an      *)
(* exact half goes: there the model takes both neighbours.                 *)
(***************************************************************************)
EXTENDS Integers, Sequences, FiniteSets, TLC

VARIABLES pc, circunstancia_a, circunstancia_b, resultado,
          distribucion_actual, distribucion_anterior,
          peso_evidencias, peso_documentos, iteracion, rondas, diferencia,
          responsabilidad, poliza_a, poliza_b, danos, indemnizacion,
          llamadas, marcos, motor

vars == <<pc, circunstancia_a, circunstancia_b, resultado,
          distribucion_actual, distribucion_anterior,
          peso_evidencias, peso_documentos, iteracion, rondas, diferencia,
          responsabilidad, poliza_a, poliza_b, danos, indemnizacion,
          llamadas, marcos, motor>>

\* The variables of a calcular_indemnizacion call.
calculo == <<responsabilidad, poliza_a, poliza_b, danos, indemnizacion>>

\* The calls made on one NegociadorResponsabilidad by two callers at once,
\* and the local variables of each call.
concurrente == <<llamadas, marcos>>

\* The variables of a host that calls the three components itself.
principal_sin_motor == <<pc, circunstancia_a, circunstancia_b, resultado,
                         distribucion_actual, distribucion_anterior,
                         peso_evidencias, peso_documentos, iteracion, rondas,
                         diferencia, calculo>>

\* The variables of the single caller.
principal == <<principal_sin_motor, motor>>

(***************************************************************************)
(* Bounds of the model.                                                    *)
(***************************************************************************)
MaxEvidencias == 2
MaxDocumentos == 1

\* Circumstance codes handed to the operations: 1..15 and one code off
\* each end of the range.
CircunstanciasEntrada == 0..16

\* Confidence values of an analysis, in tenths (-0.5 and 1.0); an analysis
\* without the key takes the default 0.5.
Confianzas == {-5, 10}

Sugeridas == {"ninguna", "vehiculo_a", "vehiculo_b", "compartida"}

Nulo == [responsable |-> "ninguno"]

(***************************************************************************)
(* core/rules.py : MatrizResponsabilidad                                   *)
(***************************************************************************)
\* Variant of the table with B entered at row 7, column 1.
matriz_fila7_B ==
  << <<"NA", "B", "A", "B", "B", "A", "NA", "B", "B", "NA", "NA", "B", "B", "A", "B">>,
     <<"A", "NA", "A", "B", "NA", "A", "NA", "B", "NA", "A", "A", "A", "NA", "A", "A">>,
     <<"B", "B", "NA", "B", "NA", "B", "NA", "B", "B", "B", "B", "B", "B", "B", "NA">>,
     <<"A", "A", "A", "C", "C", "A", "A", "B", "B", "A", "A", "A", "B", "A", "B">>,
     <<"A", "NA", "NA", "C", "C", "A", "NA", "C", "NA", "A", "A", "A", "B", "NA", "A">>,
     <<"B", "B", "A", "B", "B", "NA", "NA", "B", "C", "B", "B", "B", "B", "A", "A">>,
     <<"B", "NA", "NA", "B", "NA", "NA", "NA", "NA", "NA", "NA", "NA", "NA", "NA", "NA", "A">>,
     <<"A", "A", "A", "A", "C", "A", "NA", "C", "A", "A", "A", "A", "B", "A", "A">>,
     <<"A", "NA", "A", "A", "NA", "C", "NA", "B", "C", "A", "A", "A", "B", "C", "A">>,
     <<"NA", "B", "A", "B", "B", "A", "NA", "B", "B", "C", "C", "A", "B", "A", "A">>,
     <<"NA", "B", "A", "B", "B", "A", "NA", "B", "B", "C", "NA", "A", "B", "A", "A">>,
     <<"A", "B", "A", "B", "B", "A", "NA", "B", "B", "B", "B", "NA", "B", "A", "A">>,
     <<"A", "NA", "A", "A", "A", "A", "NA", "A", "A", "A", "A", "A", "NA", "A", "A">>,
     <<"B", "B", "A", "B", "NA", "B", "NA", "B", "C", "B", "B", "B", "B", "C", "A">>,
     <<"B", "B", "NA", "A", "B", "B", "B", "B", "B", "B", "B", "B", "B", "B", "NA">> >>

matriz ==
  << <<"NA", "B", "A", "B", "B", "A", "NA", "B", "B", "NA", "NA", "B", "B", "A", "B">>,
     <<"A", "NA", "A", "B", "NA", "A", "NA", "B", "NA", "A", "A", "A", "NA", "A", "A">>,
     <<"B", "B", "NA", "B", "NA", "B", "NA", "B", "B", "B", "B", "B", "B", "B", "NA">>,
     <<"A", "A", "A", "C", "C", "A", "A", "B", "B", "A", "A", "A", "B", "A", "B">>,
     <<"A", "NA", "NA", "C", "C", "A", "NA", "C", "NA", "A", "A", "A", "B", "NA", "A">>,
     <<"B", "B", "A", "B", "B", "NA", "NA", "B", "C", "B", "B", "B", "B", "A", "A">>,
     <<"NA", "NA", "NA", "B", "NA", "NA", "NA", "NA", "NA", "NA", "NA", "NA", "NA", "NA", "A">>,
     <<"A", "A", "A", "A", "C", "A", "NA", "C", "A", "A", "A", "A", "B", "A", "A">>,
     <<"A", "NA", "A", "A", "NA", "C", "NA", "B", "C", "A", "A", "A", "B", "C", "A">>,
     <<"NA", "B", "A", "B", "B", "A", "NA", "B", "B", "C", "C", "A", "B", "A", "A">>,
     <<"NA", "B", "A", "B", "B", "A", "NA", "B", "B", "C", "NA", "A", "B", "A", "A">>,
     <<"A", "B", "A", "B", "B", "A", "NA", "B", "B", "B", "B", "NA", "B", "A", "A">>,
     <<"A", "NA", "A", "A", "A", "A", "NA", "A", "A", "A", "A", "A", "NA", "A", "A">>,
     <<"B", "B", "A", "B", "NA", "B", "NA", "B", "C", "B", "B", "B", "B", "C", "A">>,
     <<"B", "B", "NA", "A", "B", "B", "B", "B", "B", "B", "B", "B", "B", "B", "NA">> >>

\* A Python list subscript: a negative index counts from the end.
IndicePython(i, n) == IF i < 0 THEN i + n + 1 ELSE i + 1

\* Variant with the two subscripts exchanged:
\* matriz[circunstancia_b - 1][circunstancia_a - 1]
Celda_Transpuesta(ca, cb) ==
  LET fila == matriz[IndicePython(cb - 1, Len(matriz))]
  IN  fila[IndicePython(ca - 1, Len(fila))]

\* matriz[circunstancia_a - 1][circunstancia_b - 1]
Celda(ca, cb) ==
  LET fila == matriz[IndicePython(ca - 1, Len(matriz))]
  IN  fila[IndicePython(cb - 1, Len(fila))]

\* Variant that tests the upper end of the range only.
EnRango_SinMinimo(ca, cb) == ca <= 15 /\ cb <= 15

\* 1 <= circunstancia_a <= 15 and 1 <= circunstancia_b <= 15
EnRango(ca, cb) == 1 <= ca /\ ca <= 15 /\ 1 <= cb /\ cb <= 15

\* Variant whose NA branch tests for "N/A": the NA cells fall through to
\* the unknown-code branch.
_interpretar_codigo_NA_mal_escrito(codigo) ==
  IF codigo = "A" THEN
    [responsable |-> "vehiculo_a", porcentaje_a |-> 100, porcentaje_b |-> 0,
     codigo_matriz |-> "A"]
  ELSE IF codigo = "B" THEN
    [responsable |-> "vehiculo_b", porcentaje_a |-> 0, porcentaje_b |-> 100,
     codigo_matriz |-> "B"]
  ELSE IF codigo = "C" THEN
    [responsable |-> "compartida", porcentaje_a |-> 50, porcentaje_b |-> 50,
     codigo_matriz |-> "C"]
  ELSE IF codigo = "N/A" THEN
    [responsable |-> "no_aplica", codigo_matriz |-> "NA"]
  ELSE IF codigo = "NRD" THEN
    [responsable |-> "indeterminado", codigo_matriz |-> "NRD"]
  ELSE
    [responsable |-> "error", codigo_matriz |-> codigo]

\* Variant whose B branch carries the percentages of the A branch.
_interpretar_codigo_B_como_A(codigo) ==
  IF codigo = "A" THEN
    [responsable |-> "vehiculo_a", porcentaje_a |-> 100, porcentaje_b |-> 0,
     codigo_matriz |-> "A"]
  ELSE IF codigo = "B" THEN
    [responsable |-> "vehiculo_b", porcentaje_a |-> 100, porcentaje_b |-> 0,
     codigo_matriz |-> "B"]
  ELSE IF codigo = "C" THEN
    [responsable |-> "compartida", porcentaje_a |-> 50, porcentaje_b |-> 50,
     codigo_matriz |-> "C"]
  ELSE IF codigo = "NA" THEN
    [responsable |-> "no_aplica", codigo_matriz |-> "NA"]
  ELSE IF codigo = "NRD" THEN
    [responsable |-> "indeterminado", codigo_matriz |-> "NRD"]
  ELSE
    [responsable |-> "error", codigo_matriz |-> codigo]

_interpretar_codigo(codigo) ==
  IF codigo = "A" THEN
    [responsable |-> "vehiculo_a", porcentaje_a |-> 100, porcentaje_b |-> 0,
     codigo_matriz |-> "A"]
  ELSE IF codigo = "B" THEN
    [responsable |-> "vehiculo_b", porcentaje_a |-> 0, porcentaje_b |-> 100,
     codigo_matriz |-> "B"]
  ELSE IF codigo = "C" THEN
    [responsable |-> "compartida", porcentaje_a |-> 50, porcentaje_b |-> 50,
     codigo_matriz |-> "C"]
  ELSE IF codigo = "NA" THEN
    [responsable |-> "no_aplica", codigo_matriz |-> "NA"]
  ELSE IF codigo = "NRD" THEN
    [responsable |-> "indeterminado", codigo_matriz |-> "NRD"]
  ELSE
    [responsable |-> "error", codigo_matriz |-> codigo]

determinar_responsabilidad(ca, cb) ==
  IF ~ EnRango(ca, cb)
    THEN [responsable |-> "error"]
    ELSE _interpretar_codigo(Celda(ca, cb))

(***************************************************************************)
(* Exact arithmetic on integer fractions p/q with q > 0                    *)
(***************************************************************************)
Abs(x) == IF x < 0 THEN 0 - x ELSE x

\* The largest integer not above p/q.
Piso(p, q) == IF p >= 0 THEN p \div q ELSE 0 - ((q - 1 - p) \div q)

\* Python round(p/q): to the nearest integer, an exact half to the even one.
round(p, q) ==
  LET f == Piso(p, q)
      r2 == 2 * (p - f * q)
  IN  IF r2 < q THEN f
      ELSE IF r2 > q THEN f + 1
      ELSE IF f % 2 = 0 THEN f ELSE f + 1

\* round() of a float that carries rounding error: where p/q is an exact
\* half the error decides, and either neighbour can come out.
RoundFlotante(p, q) ==
  LET f == Piso(p, q)
  IN  IF 2 * (p - f * q) = q THEN {f, f + 1} ELSE {round(p, q)}

(***************************************************************************)
(* core/negotiation.py : NegociadorResponsabilidad                         *)
(***************************************************************************)
max_iteraciones == 5

\* umbral_convergencia = 0.05, in hundredths.
umbral_convergencia == 5

\* Severity weights, doubled: 9.5 is 19, 8.0 is 16, ...
pesos == <<19, 16, 15, 18, 17, 14, 13, 15, 12, 14, 12, 18, 20, 10, 4>>

\* pesos.get(circunstancia, 5.0)
PesoDe(c) == IF c \in DOMAIN pesos THEN pesos[c] ELSE 10

\* Variant that leaves the rounded pair as it is.
AjustarSuma_SinResiduo(porcentaje_a, porcentaje_b) ==
  [porcentaje_a |-> porcentaje_a, porcentaje_b |-> porcentaje_b,
   diferencia |-> 100 - (porcentaje_a + porcentaje_b)]

\* "Ajustar para asegurar que suman 100%": the residual goes to porcentaje_a.
AjustarSuma(porcentaje_a, porcentaje_b) ==
  IF porcentaje_a + porcentaje_b # 100
    THEN [porcentaje_a |-> porcentaje_a + (100 - (porcentaje_a + porcentaje_b)),
          porcentaje_b |-> porcentaje_b,
          diferencia |-> 100 - (porcentaje_a + porcentaje_b)]
    ELSE [porcentaje_a |-> porcentaje_a, porcentaje_b |-> porcentaje_b,
          diferencia |-> 0]

Distribucion(d) == [porcentaje_a |-> d.porcentaje_a, porcentaje_b |-> d.porcentaje_b]

\* Variant that seeds each share from the party's own weight.
_distribucion_inicial_PesoPropio(ca, cb) ==
  LET peso_a == PesoDe(ca)
      peso_b == PesoDe(cb)
      total_peso == peso_a + peso_b
  IN  IF total_peso > 0
        THEN AjustarSuma(round(peso_a * 100, total_peso),
                         round(peso_b * 100, total_peso))
        ELSE AjustarSuma(50, 50)

_distribucion_inicial(ca, cb) ==
  LET peso_a == PesoDe(ca)
      peso_b == PesoDe(cb)
      total_peso == peso_a + peso_b
  IN  IF total_peso > 0
        THEN AjustarSuma(round(peso_b * 100, total_peso),
                         round(peso_a * 100, total_peso))
        ELSE AjustarSuma(50, 50)

\* analisis.get("confianza", 0.5), in tenths
ConfianzaDe(analisis) ==
  IF analisis.confianza = {} THEN 5 ELSE CHOOSE c \in analisis.confianza : TRUE

\* The sums of one pass over the items, in twentieths: an item that blames
\* vehicle A adds its confidence to peso_b, one that blames B to peso_a, a
\* shared one adds half to each.
SumaPesos(sugerida, confianza, acc) ==
  IF sugerida = "vehiculo_a"
    THEN [acc EXCEPT !.peso_b = @ + 2 * confianza]
  ELSE IF sugerida = "vehiculo_b"
    THEN [acc EXCEPT !.peso_a = @ + 2 * confianza]
  ELSE IF sugerida = "compartida"
    THEN [acc EXCEPT !.peso_a = @ + confianza, !.peso_b = @ + confianza]
  ELSE acc

RECURSIVE RecorrerEvidencias(_, _)
RecorrerEvidencias(evidencias, acc) ==
  IF evidencias = << >> THEN acc
  ELSE LET evidencia == Head(evidencias)
       IN  IF ~ evidencia.procesada
             THEN RecorrerEvidencias(Tail(evidencias), acc)
             ELSE RecorrerEvidencias(Tail(evidencias),
                    SumaPesos(evidencia.analisis.responsabilidad_sugerida,
                              ConfianzaDe(evidencia.analisis),
                              [acc EXCEPT !.total = @ + 1]))

\* The weight peso_a of the code is peso_a / den here.
Promediar(acc) ==
  [peso_a |-> acc.peso_a, peso_b |-> acc.peso_b,
   den |-> IF acc.total > 0 THEN 20 * acc.total ELSE 20,
   total |-> acc.total]

_calcular_peso_evidencias(evidencias) ==
  Promediar(RecorrerEvidencias(evidencias, [peso_a |-> 0, peso_b |-> 0, total |-> 0]))

RECURSIVE RecorrerDocumentos(_, _)
RecorrerDocumentos(documentos, acc) ==
  IF documentos = << >> THEN acc
  ELSE LET clasificacion == Head(documentos).clasificacion
           confianza == ConfianzaDe(clasificacion)
       IN  IF confianza < 3
             THEN RecorrerDocumentos(Tail(documentos), acc)
             ELSE RecorrerDocumentos(Tail(documentos),
                    SumaPesos(clasificacion.responsabilidad_sugerida, confianza,
                              [acc EXCEPT !.total = @ + 1]))

_calcular_peso_documentos(documentos) ==
  Promediar(RecorrerDocumentos(documentos, [peso_a |-> 0, peso_b |-> 0, total |-> 0]))

\* Variant with the evidence and document coefficients exchanged.
Mezcla_CoeficientesCambiados(porcentaje, pe, pd, pe_den, pd_den) ==
  porcentaje * pe_den * pd_den + 40 * pe * pd_den + 60 * pd * pe_den

\* The blended shares before normalisation, over the common denominator
\* 2 * pe.den * pd.den:
\*   porcentaje * 0.5 + peso_evidencias * 100 * 0.3 + peso_documentos * 100 * 0.2
Mezcla(porcentaje, pe, pd, pe_den, pd_den) ==
  porcentaje * pe_den * pd_den + 60 * pe * pd_den + 40 * pd * pe_den

\* The rounded, normalised pair: every pair the float rounding can give.
Normalizar(porcentaje_a, porcentaje_b) ==
  LET total == porcentaje_a + porcentaje_b
  IN  IF total > 0
        THEN RoundFlotante(porcentaje_a * 100, total)
               \X RoundFlotante(porcentaje_b * 100, total)
        ELSE {<<50, 50>>}

\* Variant that rounds the blended shares without dividing by their sum.
_ajustar_distribucion_SinNormalizar(distribucion, pe, pd) ==
  LET porcentaje_a == Mezcla(distribucion.porcentaje_a, pe.peso_a, pd.peso_a, pe.den, pd.den)
      porcentaje_b == Mezcla(distribucion.porcentaje_b, pe.peso_b, pd.peso_b, pe.den, pd.den)
  IN  {AjustarSuma(n[1], n[2]) :
         n \in RoundFlotante(porcentaje_a, 2 * pe.den * pd.den)
                 \X RoundFlotante(porcentaje_b, 2 * pe.den * pd.den)}

_ajustar_distribucion(distribucion, pe, pd) ==
  LET porcentaje_a == Mezcla(distribucion.porcentaje_a, pe.peso_a, pd.peso_a, pe.den, pd.den)
      porcentaje_b == Mezcla(distribucion.porcentaje_b, pe.peso_b, pd.peso_b, pe.den, pd.den)
  IN  {AjustarSuma(n[1], n[2]) : n \in Normalizar(porcentaje_a, porcentaje_b)}

\* abs(anterior - actual) <= 0.05
_converge(anterior, actual) ==
  100 * Abs(anterior.porcentaje_a - actual.porcentaje_a) <= umbral_convergencia

\* Variant of the loop test with <=.
ContinuaBucle_Inclusive(it) == it <= max_iteraciones

\* while iteracion < self.max_iteraciones
ContinuaBucle(it) == it < max_iteraciones

\* Variant that reports an equal split as undetermined.
Clasificar_EmpateIndeterminado(distribucion) ==
  IF distribucion.porcentaje_a >= 90 THEN "vehiculo_a"
  ELSE IF distribucion.porcentaje_b >= 90 THEN "vehiculo_b"
  ELSE IF distribucion.porcentaje_a = distribucion.porcentaje_b THEN "indeterminado"
  ELSE "compartida"

\* Variant with strict thresholds.
Clasificar_Estricto(distribucion) ==
  IF distribucion.porcentaje_a > 90 THEN "vehiculo_a"
  ELSE IF distribucion.porcentaje_b > 90 THEN "vehiculo_b"
  ELSE "compartida"

Clasificar(distribucion) ==
  IF distribucion.porcentaje_a >= 90 THEN "vehiculo_a"
  ELSE IF distribucion.porcentaje_b >= 90 THEN "vehiculo_b"
  ELSE "compartida"

\* Variant that counts a pass of the check in the last permitted round as
\* no convergence.
ResultadoNegociacion_UltimaRondaNoCuenta(distribucion, it) ==
  [responsable |-> Clasificar(distribucion),
   porcentaje_a |-> distribucion.porcentaje_a,
   porcentaje_b |-> distribucion.porcentaje_b,
   iteraciones |-> it,
   convergio |-> it < max_iteraciones - 1]

ResultadoNegociacion(distribucion, it) ==
  [responsable |-> Clasificar(distribucion),
   porcentaje_a |-> distribucion.porcentaje_a,
   porcentaje_b |-> distribucion.porcentaje_b,
   iteraciones |-> it,
   convergio |-> it < max_iteraciones]

\* Floating-point arithmetic is a function of its operands: the same
\* distribution and weights always round the same way.
AjusteFlotante(distribucion, pe, pd) ==
  CHOOSE d \in _ajustar_distribucion(distribucion, pe, pd) : TRUE

\* The while loop of negociar run from (actual, it) to its end: the values
\* of (distribucion_actual, iteracion) at the loop test, then at the exit.
RECURSIVE Iterar(_, _, _, _)
Iterar(actual, pe, pd, it) ==
  LET aqui == [distribucion_actual |-> actual, iteracion |-> it]
      nueva == Distribucion(AjusteFlotante(actual, pe, pd))
  IN  IF ~ ContinuaBucle(it) THEN <<aqui>>
      ELSE IF _converge(actual, nueva)
        THEN <<aqui, [distribucion_actual |-> nueva, iteracion |-> it]>>
        ELSE <<aqui>> \o Iterar(nueva, pe, pd, it + 1)

\* negociar as one function of its four arguments.
negociar(ca, cb, documentos, evidencias) ==
  LET recorrido == Iterar(Distribucion(_distribucion_inicial(ca, cb)),
                          _calcular_peso_evidencias(evidencias),
                          _calcular_peso_documentos(documentos), 0)
      final == recorrido[Len(recorrido)]
  IN  ResultadoNegociacion(final.distribucion_actual, final.iteracion)

(***************************************************************************)
(* core/calculator.py : CalculadorIndemnizacion                            *)
(*                                                                         *)
(* Money.  A damage amount is a whole number of currency units.  The       *)
(* amounts the code computes in floating point are held exactly, as        *)
(* reduced fractions [num, den]; a coverage factor is held in tenths.  The *)
(* amounts of the result, which the code rounds to two decimals, are held  *)
(* in hundredths of a unit.  round(x, 2) of a float whose exact value lies *)
(* halfway between two hundredths depends on the float error, so there the *)
(* model takes both neighbours.                                            *)
(***************************************************************************)
RECURSIVE MCD(_, _)
MCD(a, b) == IF b = 0 THEN a ELSE MCD(b, a % b)

\* n/d in lowest terms, d > 0.
Fraccion(n, d) ==
  LET g == MCD(Abs(n), d)
  IN  [num |-> n \div g, den |-> d \div g]

Entero(n) == [num |-> n, den |-> 1]

Producto(x, y) ==
  LET g1 == MCD(Abs(x.num), y.den)
      g2 == MCD(Abs(y.num), x.den)
  IN  [num |-> (x.num \div g1) * (y.num \div g2),
       den |-> (x.den \div g2) * (y.den \div g1)]

Resta(x, y) == Fraccion(x.num * y.den - y.num * x.den, x.den * y.den)

MenorQue(x, y) == x.num * y.den < y.num * x.den

\* Python max(x, y).
Maximo(x, y) == IF MenorQue(x, y) THEN y ELSE x

\* round(x, 2), in hundredths.
RoundCentavos(x) == RoundFlotante(100 * x.num, x.den)

\* dict.get(clave, defecto).
Get(dict, clave, defecto) ==
  IF clave \in DOMAIN dict THEN dict[clave] ELSE defecto

DictVacio == << >>

_calcular_factor_cobertura_EstandarComoBasica(poliza) ==
  LET tipo_cobertura == Get(poliza, "tipo_cobertura", "basica")
  IN  IF tipo_cobertura = "premium" THEN 10
      ELSE IF tipo_cobertura = "estandar" THEN 8
      ELSE IF tipo_cobertura = "basica" THEN 8
      ELSE 7

\* The coverage factor, in tenths.
_calcular_factor_cobertura(poliza) ==
  LET tipo_cobertura == Get(poliza, "tipo_cobertura", "basica")
  IN  IF tipo_cobertura = "premium" THEN 10
      ELSE IF tipo_cobertura = "estandar" THEN 9
      ELSE IF tipo_cobertura = "basica" THEN 8
      ELSE 7

\* Variant that caps the deductible at the payment it applies to.
_calcular_deducible_TopeMonto(poliza, monto) ==
  LET deducible_porcentaje == Get(poliza, "deducible_porcentaje", 0)
      deducible_minimo == Get(poliza, "deducible_minimo", 0)
      deducible_calculado == Producto(monto, Fraccion(deducible_porcentaje, 100))
      deducible == Maximo(deducible_calculado, Entero(deducible_minimo))
  IN  IF MenorQue(monto, deducible) THEN monto ELSE deducible

_calcular_deducible_SinMinimo(poliza, monto) ==
  Producto(monto, Fraccion(Get(poliza, "deducible_porcentaje", 0), 100))

_calcular_deducible(poliza, monto) ==
  LET deducible_porcentaje == Get(poliza, "deducible_porcentaje", 0)
      deducible_minimo == Get(poliza, "deducible_minimo", 0)
      deducible_calculado == Producto(monto, Fraccion(deducible_porcentaje, 100))
  IN  Maximo(deducible_calculado, Entero(deducible_minimo))

IndemnizacionBruta_SinFactor(porcentaje, monto, factor) ==
  Producto(Fraccion(porcentaje, 100), Entero(monto))

\* (porcentaje / 100.0) * monto * factor
IndemnizacionBruta(porcentaje, monto, factor) ==
  Producto(Producto(Fraccion(porcentaje, 100), Entero(monto)),
           Fraccion(factor, 10))

IndemnizacionNeta_SinPiso(indemnizacion_bruta, deducible) ==
  Resta(indemnizacion_bruta, deducible)

\* max(0, indemnizacion - deducible)
IndemnizacionNeta(indemnizacion_bruta, deducible) ==
  Maximo(Entero(0), Resta(indemnizacion_bruta, deducible))

\* The results calcular_indemnizacion can return: one, or several where a
\* reported amount lies halfway between two hundredths.
calcular_indemnizacion(resp, pa, pb, dn) ==
  LET porcentaje_a == Get(resp, "porcentaje_a", 0)
      porcentaje_b == Get(resp, "porcentaje_b", 0)
      danos_a == Get(Get(dn, "vehiculo_a", DictVacio), "monto", 0)
      danos_b == Get(Get(dn, "vehiculo_b", DictVacio), "monto", 0)
      factor_cobertura_a == _calcular_factor_cobertura(pa)
      factor_cobertura_b == _calcular_factor_cobertura(pb)
      indemnizacion_a_b ==
        IndemnizacionBruta(porcentaje_a, danos_b, factor_cobertura_a)
      indemnizacion_b_a ==
        IndemnizacionBruta(porcentaje_b, danos_a, factor_cobertura_b)
      deducible_a == _calcular_deducible(pa, indemnizacion_b_a)
      deducible_b == _calcular_deducible(pb, indemnizacion_a_b)
      indemnizacion_neta_a == IndemnizacionNeta(indemnizacion_b_a, deducible_a)
      indemnizacion_neta_b == IndemnizacionNeta(indemnizacion_a_b, deducible_b)
  IN  { [indemnizaciones |->
           << [pagador |-> "vehiculo_a", receptor |-> "vehiculo_b",
               monto_bruto |-> bruto_ab, deducible |-> ded_b,
               monto_neto |-> neto_b, moneda |-> "COP",
               factor_cobertura |-> factor_cobertura_a],
              [pagador |-> "vehiculo_b", receptor |-> "vehiculo_a",
               monto_bruto |-> bruto_ba, deducible |-> ded_a,
               monto_neto |-> neto_a, moneda |-> "COP",
               factor_cobertura |-> factor_cobertura_b] >>,
         resumen |->
           [total_danos_a |-> 100 * danos_a,
            total_danos_b |-> 100 * danos_b,
            porcentaje_responsabilidad_a |-> porcentaje_a,
            porcentaje_responsabilidad_b |-> porcentaje_b]] :
        bruto_ab \in RoundCentavos(indemnizacion_a_b),
        ded_b \in RoundCentavos(deducible_b),
        neto_b \in RoundCentavos(indemnizacion_neta_b),
        bruto_ba \in RoundCentavos(indemnizacion_b_a),
        ded_a \in RoundCentavos(deducible_a),
        neto_a \in RoundCentavos(indemnizacion_neta_a) }

(***************************************************************************)
(* Inputs of a calculation                                                 *)
(***************************************************************************)
\* The three tiers the code names, and one it does not.
TiposCobertura == {"premium", "estandar", "basica", "todo_riesgo"}

\* A policy names its tier or not, and carries deductible terms or not.
Polizas ==
  { tipo @@ deducible :
      tipo \in {DictVacio} \cup {[tipo_cobertura |-> t] : t \in TiposCobertura},
      deducible \in {DictVacio,
                     [deducible_porcentaje |-> 10, deducible_minimo |-> 50000]} }

Montos == {155, 1000000}

Danos ==
  { da @@ db :
      da \in {DictVacio} \cup {[vehiculo_a |-> [monto |-> m]] : m \in Montos},
      db \in {DictVacio} \cup {[vehiculo_b |-> [monto |-> m]] : m \in Montos} }

\* The outcomes a host can hand to the calculator: the five of the matrix
\* codes and one of a negotiation.
Responsabilidades ==
  {_interpretar_codigo(codigo) : codigo \in {"A", "B", "C", "NA", "NRD"}}
    \cup {ResultadoNegociacion(_distribucion_inicial(13, 9), 0)}

(***************************************************************************)
(* Inputs of a negotiation                                                 *)
(***************************************************************************)
ConfianzaOpcional == {{}} \cup {{c} : c \in Confianzas}

Analisis == [responsabilidad_sugerida : Sugeridas, confianza : ConfianzaOpcional]

SinAnalisis == [responsabilidad_sugerida |-> "ninguna", confianza |-> {}]

EvidenciaItems ==
  {[procesada |-> FALSE, analisis |-> SinAnalisis]}
    \cup {[procesada |-> TRUE, analisis |-> a] : a \in Analisis}

DocumentoItems == {[clasificacion |-> a] : a \in Analisis}

ListasHasta(S, n) == UNION {[1..k -> S] : k \in 0..n}

(***************************************************************************)
(* State machine                                                           *)
(***************************************************************************)
SinDistribucion == [porcentaje_a |-> 0, porcentaje_b |-> 0]
SinPeso == [peso_a |-> 0, peso_b |-> 0, den |-> 20, total |-> 0]

\* The two callers of the shared instance.
Llamadas == {1, 2}

SinLlamada ==
  [pc |-> "idle", op |-> "ninguna", entrada |-> DictVacio, retorno |-> Nulo,
   previas |-> 0]

\* The local variables of negociar before the call assigns them.
MarcoInicial ==
  [distribucion_actual |-> SinDistribucion,
   distribucion_anterior |-> SinDistribucion,
   peso_evidencias |-> SinPeso, peso_documentos |-> SinPeso, iteracion |-> 0]

\* indemnizacion = None
SinIndemnizacion == [indemnizaciones |-> << >>]

\* procesar_siniestro before a claim comes in.  invocados lists the core
\* operations the flow has called, in order.
MotorInicial ==
  [paso |-> "inicio", siniestro |-> DictVacio,
   circunstancia_a |-> 0, circunstancia_b |-> 0,
   resultado_responsabilidad |-> Nulo, indemnizacion |-> SinIndemnizacion,
   invocados |-> << >>]

Init ==
  /\ pc = "idle"
  /\ circunstancia_a = 0
  /\ circunstancia_b = 0
  /\ resultado = Nulo
  /\ distribucion_actual = SinDistribucion
  /\ distribucion_anterior = SinDistribucion
  /\ peso_evidencias = SinPeso
  /\ peso_documentos = SinPeso
  /\ iteracion = 0
  /\ rondas = 0
  /\ diferencia = 0
  /\ responsabilidad = Nulo
  /\ poliza_a = DictVacio
  /\ poliza_b = DictVacio
  /\ danos = DictVacio
  /\ indemnizacion = SinIndemnizacion
  /\ llamadas = [i \in Llamadas |-> SinLlamada]
  /\ marcos = [i \in Llamadas |-> MarcoInicial]
  /\ motor = MotorInicial

\* MatrizResponsabilidad.determinar_responsabilidad, called by a host.
DeterminarResponsabilidad ==
  /\ pc = "idle"
  /\ \E ca \in CircunstanciasEntrada, cb \in CircunstanciasEntrada :
       /\ circunstancia_a' = ca
       /\ circunstancia_b' = cb
       /\ resultado' = determinar_responsabilidad(ca, cb)
  /\ pc' = "matriz_fin"
  /\ UNCHANGED calculo
  /\ UNCHANGED <<concurrente, motor>>
  /\ UNCHANGED <<distribucion_actual, distribucion_anterior, peso_evidencias,
                 peso_documentos, iteracion, rondas, diferencia>>

\* negociar, line 50: the seed distribution.
NegociarInicio ==
  /\ pc = "idle"
  /\ \E ca \in CircunstanciasEntrada, cb \in CircunstanciasEntrada :
       /\ circunstancia_a' = ca
       /\ circunstancia_b' = cb
       /\ distribucion_actual' = Distribucion(_distribucion_inicial(ca, cb))
       /\ diferencia' = _distribucion_inicial(ca, cb).diferencia
  /\ pc' = "neg_sembrado"
  /\ UNCHANGED calculo
  /\ UNCHANGED <<concurrente, motor>>
  /\ UNCHANGED <<resultado, distribucion_anterior, peso_evidencias,
                 peso_documentos, iteracion, rondas>>

\* negociar, line 56.
PesarEvidencias ==
  /\ pc = "neg_sembrado"
  /\ \E evidencias \in ListasHasta(EvidenciaItems, MaxEvidencias) :
       peso_evidencias' = _calcular_peso_evidencias(evidencias)
  /\ pc' = "neg_evidencias"
  /\ UNCHANGED calculo
  /\ UNCHANGED <<concurrente, motor>>
  /\ UNCHANGED <<circunstancia_a, circunstancia_b, resultado, distribucion_actual,
                 distribucion_anterior, peso_documentos, iteracion, rondas,
                 diferencia>>

\* negociar, lines 57-60.
PesarDocumentos ==
  /\ pc = "neg_evidencias"
  /\ \E documentos \in ListasHasta(DocumentoItems, MaxDocumentos) :
       peso_documentos' = _calcular_peso_documentos(documentos)
  /\ iteracion' = 0
  /\ pc' = "neg_bucle"
  /\ UNCHANGED calculo
  /\ UNCHANGED <<concurrente, motor>>
  /\ UNCHANGED <<circunstancia_a, circunstancia_b, resultado, distribucion_actual,
                 distribucion_anterior, peso_evidencias, rondas, diferencia>>

\* negociar, lines 61-76: one pass of the while loop.
NegociarRonda ==
  /\ pc = "neg_bucle"
  /\ ContinuaBucle(iteracion)
  /\ distribucion_anterior' = distribucion_actual
  /\ \E d \in _ajustar_distribucion(distribucion_actual, peso_evidencias,
                                    peso_documentos) :
       /\ distribucion_actual' = Distribucion(d)
       /\ diferencia' = d.diferencia
  /\ rondas' = rondas + 1
  /\ IF _converge(distribucion_anterior', distribucion_actual')
       THEN pc' = "neg_break" /\ iteracion' = iteracion
       ELSE pc' = "neg_bucle" /\ iteracion' = iteracion + 1
  /\ UNCHANGED calculo
  /\ UNCHANGED <<concurrente, motor>>
  /\ UNCHANGED <<circunstancia_a, circunstancia_b, resultado, peso_evidencias,
                 peso_documentos>>

\* negociar, lines 78-102: the loop is left and the result is built.
NegociarFin ==
  /\ \/ pc = "neg_break"
     \/ pc = "neg_bucle" /\ ~ ContinuaBucle(iteracion)
  /\ resultado' = ResultadoNegociacion(distribucion_actual, iteracion)
  /\ pc' = "neg_fin"
  /\ UNCHANGED calculo
  /\ UNCHANGED <<concurrente, motor>>
  /\ UNCHANGED <<circunstancia_a, circunstancia_b, distribucion_actual,
                 distribucion_anterior, peso_evidencias, peso_documentos,
                 iteracion, rondas, diferencia>>

\* What one calcular_indemnizacion call does with its four arguments.
Calcular(resp, pa, pb, dn) ==
  /\ pc' = "calc_fin"
  /\ responsabilidad' = resp
  /\ poliza_a' = pa
  /\ poliza_b' = pb
  /\ danos' = dn
  /\ indemnizacion' \in calcular_indemnizacion(resp, pa, pb, dn)
  /\ UNCHANGED <<concurrente, motor>>
  /\ UNCHANGED <<circunstancia_a, circunstancia_b, resultado, distribucion_actual,
                 distribucion_anterior, peso_evidencias, peso_documentos,
                 iteracion, rondas, diferencia>>

\* CalculadorIndemnizacion.calcular_indemnizacion, called by a host with an
\* outcome of its choice.
CalcularIndemnizacion ==
  /\ pc = "idle"
  /\ \E resp \in Responsabilidades, pa \in Polizas, pb \in Polizas, dn \in Danos :
       Calcular(resp, pa, pb, dn)

\* Step 6 of procesar_siniestro: the outcome of the matrix goes to the
\* calculator unless it is no_aplica or indeterminado.
ProcesarIndemnizacion ==
  /\ pc = "matriz_fin"
  /\ resultado.responsable \notin {"no_aplica", "indeterminado"}
  /\ \E pa \in Polizas, pb \in Polizas, dn \in Danos :
       Calcular(resultado, pa, pb, dn)

\* The host takes the returned value; the next call starts afresh.
Retornar ==
  /\ pc \in {"matriz_fin", "neg_fin", "calc_fin"}
  /\ pc' = "idle"
  /\ circunstancia_a' = 0
  /\ circunstancia_b' = 0
  /\ resultado' = Nulo
  /\ distribucion_actual' = SinDistribucion
  /\ distribucion_anterior' = SinDistribucion
  /\ peso_evidencias' = SinPeso
  /\ peso_documentos' = SinPeso
  /\ iteracion' = 0
  /\ rondas' = 0
  /\ diferencia' = 0
  /\ responsabilidad' = Nulo
  /\ poliza_a' = DictVacio
  /\ poliza_b' = DictVacio
  /\ danos' = DictVacio
  /\ indemnizacion' = SinIndemnizacion
  /\ UNCHANGED <<concurrente, motor>>

Next ==
  \/ DeterminarResponsabilidad
  \/ NegociarInicio
  \/ PesarEvidencias
  \/ PesarDocumentos
  \/ NegociarRonda
  \/ NegociarFin
  \/ CalcularIndemnizacion
  \/ ProcesarIndemnizacion
  \/ Retornar

Spec == Init /\ [][Next]_vars

(***************************************************************************)
(* Two callers on one instance.  Each caller makes one call after another; *)
(* the steps of the two callers interleave in any order.  The local        *)
(* variables of a call live in the caller's frame, which keeps what the    *)
(* previous call left there until the new call assigns it.                 *)
(***************************************************************************)
\* How many calls a caller completes before its last one.
MaxPrevias == 1

EvidenciaContraA ==
  [procesada |-> TRUE,
   analisis |-> [responsabilidad_sugerida |-> "vehiculo_a", confianza |-> {}]]

DocumentoContraB ==
  [clasificacion |-> [responsabilidad_sugerida |-> "vehiculo_b", confianza |-> {}]]

EntradasNegociar ==
  { [circunstancia_a |-> c[1], circunstancia_b |-> c[2],
     documentos |-> x[1], evidencias |-> x[2]] :
      c \in {<<1, 1>>, <<13, 9>>},
      x \in {<< << >>, << >> >>, << <<DocumentoContraB>>, <<EvidenciaContraA>> >>} }

EntradasMatriz ==
  { [circunstancia_a |-> 13, circunstancia_b |-> 6],
    [circunstancia_a |-> 7, circunstancia_b |-> 1] }

EntradasCalcular ==
  { [responsabilidad |-> _interpretar_codigo(codigo),
     poliza_a |-> [tipo_cobertura |-> "estandar"],
     poliza_b |-> [deducible_porcentaje |-> 10, deducible_minimo |-> 50000],
     danos |-> [vehiculo_a |-> [monto |-> 155], vehiculo_b |-> [monto |-> 1000000]]] :
      codigo \in {"A", "C"} }

MarcoDe_Unico(i) == 1

\* The frame that holds the local variables of caller i's call.
MarcoDe(i) == i

\* MatrizResponsabilidad.determinar_responsabilidad, one step.
InvocarMatriz(i) ==
  /\ llamadas[i].pc = "idle"
  /\ \E e \in EntradasMatriz :
       llamadas' = [llamadas EXCEPT ![i] =
         [@ EXCEPT !.pc = "fin", !.op = "matriz", !.entrada = e,
                   !.retorno = determinar_responsabilidad(e.circunstancia_a,
                                                          e.circunstancia_b)]]
  /\ UNCHANGED <<marcos, principal>>

\* CalculadorIndemnizacion.calcular_indemnizacion, one step; its float
\* rounding is a function of the arguments.
InvocarCalculador(i) ==
  /\ llamadas[i].pc = "idle"
  /\ \E e \in EntradasCalcular :
       llamadas' = [llamadas EXCEPT ![i] =
         [@ EXCEPT !.pc = "fin", !.op = "calcular", !.entrada = e,
                   !.retorno = CHOOSE r \in calcular_indemnizacion(
                                   e.responsabilidad, e.poliza_a, e.poliza_b,
                                   e.danos) : TRUE]]
  /\ UNCHANGED <<marcos, principal>>

\* negociar, line 50: the call starts and seeds its distribution.
InvocarNegociar(i) ==
  /\ llamadas[i].pc = "idle"
  /\ \E e \in EntradasNegociar :
       /\ llamadas' = [llamadas EXCEPT ![i] =
                         [@ EXCEPT !.pc = "sembrado", !.op = "negociar",
                                   !.entrada = e]]
       /\ marcos' = [marcos EXCEPT ![MarcoDe(i)].distribucion_actual =
                       Distribucion(_distribucion_inicial(e.circunstancia_a,
                                                          e.circunstancia_b))]
  /\ UNCHANGED principal

MarcoPesado_IteracionHeredada(marco, entrada) ==
  [marco EXCEPT !.peso_evidencias = _calcular_peso_evidencias(entrada.evidencias),
                !.peso_documentos = _calcular_peso_documentos(entrada.documentos)]

\* negociar, lines 56-60.
MarcoPesado(marco, entrada) ==
  [marco EXCEPT !.peso_evidencias = _calcular_peso_evidencias(entrada.evidencias),
                !.peso_documentos = _calcular_peso_documentos(entrada.documentos),
                !.iteracion = 0]

PesarEntradas(i) ==
  /\ llamadas[i].pc = "sembrado"
  /\ llamadas' = [llamadas EXCEPT ![i].pc = "bucle"]
  /\ marcos' = [marcos EXCEPT ![MarcoDe(i)] = MarcoPesado(@, llamadas[i].entrada)]
  /\ UNCHANGED principal

\* negociar, lines 61-76: one pass of the while loop.
MarcoTrasRonda(marco) ==
  LET nueva == Distribucion(AjusteFlotante(marco.distribucion_actual,
                                           marco.peso_evidencias,
                                           marco.peso_documentos))
  IN  [marco EXCEPT !.distribucion_anterior = marco.distribucion_actual,
                    !.distribucion_actual = nueva,
                    !.iteracion = IF _converge(marco.distribucion_actual, nueva)
                                    THEN @ ELSE @ + 1]

RondaDe(i) ==
  /\ llamadas[i].pc = "bucle"
  /\ ContinuaBucle(marcos[MarcoDe(i)].iteracion)
  /\ marcos' = [marcos EXCEPT ![MarcoDe(i)] = MarcoTrasRonda(@)]
  /\ llamadas' = [llamadas EXCEPT ![i].pc =
                    IF _converge(marcos'[MarcoDe(i)].distribucion_anterior,
                                 marcos'[MarcoDe(i)].distribucion_actual)
                      THEN "break" ELSE "bucle"]
  /\ UNCHANGED principal

\* negociar, lines 78-102.
FinDe(i) ==
  /\ \/ llamadas[i].pc = "break"
     \/ llamadas[i].pc = "bucle" /\ ~ ContinuaBucle(marcos[MarcoDe(i)].iteracion)
  /\ llamadas' = [llamadas EXCEPT ![i] =
                    [@ EXCEPT !.pc = "fin",
                              !.retorno = ResultadoNegociacion(
                                            marcos[MarcoDe(i)].distribucion_actual,
                                            marcos[MarcoDe(i)].iteracion)]]
  /\ UNCHANGED <<marcos, principal>>

\* The caller takes the result; its frame keeps the values of the call.
RetornoDe(i) ==
  /\ llamadas[i].pc = "fin"
  /\ llamadas[i].previas < MaxPrevias
  /\ llamadas' = [llamadas EXCEPT ![i] =
                    [SinLlamada EXCEPT !.previas = llamadas[i].previas + 1]]
  /\ UNCHANGED <<marcos, principal>>

NextInstancia ==
  \E i \in Llamadas :
    \/ InvocarMatriz(i)
    \/ InvocarCalculador(i)
    \/ InvocarNegociar(i)
    \/ PesarEntradas(i)
    \/ RondaDe(i)
    \/ FinDe(i)
    \/ RetornoDe(i)

SpecInstancia == Init /\ [][NextInstancia]_vars

(***************************************************************************)
(* core/engine.py : MotorPrincipal.procesar_siniestro, steps 4 to 8.       *)
(* The circumstance of each vehicle comes from the classifier, whose       *)
(* answer the flow uses as it is.                                          *)
(***************************************************************************)
\* The claims that come in: disputed, undisputed or without the flag; with
\* or without evidence, policy terms and damages.
Siniestros ==
  { disputa @@
    [documentos |-> x[1], evidencias |-> x[2],
     vehiculo_a |-> [poliza_info |-> pa],
     vehiculo_b |-> [poliza_info |-> pb],
     danos |-> dn] :
      disputa \in {DictVacio, [disputa |-> TRUE], [disputa |-> FALSE]},
      x \in {<< << >>, << >> >>, << <<DocumentoContraB>>, <<EvidenciaContraA>> >>},
      pa \in {DictVacio, [tipo_cobertura |-> "estandar"]},
      pb \in {DictVacio, [deducible_porcentaje |-> 10, deducible_minimo |-> 50000]},
      dn \in {DictVacio,
              [vehiculo_a |-> [monto |-> 155], vehiculo_b |-> [monto |-> 1000000]]} }

UsaNegociador_Siempre(siniestro) == TRUE

\* datos_siniestro.get("disputa", False)
UsaNegociador(siniestro) == Get(siniestro, "disputa", FALSE)

\* resultado_responsabilidad["responsable"] not in ["no_aplica", "indeterminado"]
AplicaCalculo(resp) == resp.responsable \notin {"no_aplica", "indeterminado"}

\* Steps 1 to 4: the claim is taken and both circumstances are classified.
MotorClasificar ==
  /\ motor.paso = "inicio"
  /\ \E siniestro \in Siniestros,
        ca \in CircunstanciasEntrada, cb \in CircunstanciasEntrada :
       motor' = [MotorInicial EXCEPT !.paso = "clasificado",
                                     !.siniestro = siniestro,
                                     !.circunstancia_a = ca,
                                     !.circunstancia_b = cb]
  /\ UNCHANGED <<principal_sin_motor, concurrente>>

\* Step 5, lines 100-107.
MotorNegociar ==
  /\ motor.paso = "clasificado"
  /\ UsaNegociador(motor.siniestro)
  /\ motor' = [motor EXCEPT
       !.paso = "resuelto",
       !.resultado_responsabilidad =
          negociar(motor.circunstancia_a, motor.circunstancia_b,
                   motor.siniestro.documentos, motor.siniestro.evidencias),
       !.invocados = Append(@, "negociar")]
  /\ UNCHANGED <<principal_sin_motor, concurrente>>

\* Step 5, lines 108-113.
MotorMatriz ==
  /\ motor.paso = "clasificado"
  /\ ~ UsaNegociador(motor.siniestro)
  /\ motor' = [motor EXCEPT
       !.paso = "resuelto",
       !.resultado_responsabilidad =
          determinar_responsabilidad(motor.circunstancia_a, motor.circunstancia_b),
       !.invocados = Append(@, "matriz")]
  /\ UNCHANGED <<principal_sin_motor, concurrente>>

\* Step 6, lines 117-123.
MotorCalcular ==
  /\ motor.paso = "resuelto"
  /\ AplicaCalculo(motor.resultado_responsabilidad)
  /\ \E r \in calcular_indemnizacion(
                motor.resultado_responsabilidad,
                Get(Get(motor.siniestro, "vehiculo_a", DictVacio), "poliza_info", DictVacio),
                Get(Get(motor.siniestro, "vehiculo_b", DictVacio), "poliza_info", DictVacio),
                Get(motor.siniestro, "danos", DictVacio)) :
       motor' = [motor EXCEPT !.paso = "calculado",
                              !.indemnizacion = r,
                              !.invocados = Append(@, "calcular")]
  /\ UNCHANGED <<principal_sin_motor, concurrente>>

\* Step 6 when the guard of line 117 is false: indemnizacion stays None.
MotorOmitirCalculo ==
  /\ motor.paso = "resuelto"
  /\ ~ AplicaCalculo(motor.resultado_responsabilidad)
  /\ motor' = [motor EXCEPT !.paso = "calculado"]
  /\ UNCHANGED <<principal_sin_motor, concurrente>>

\* Step 8: resultado_final is returned and the next claim can come in.
MotorDevolver ==
  /\ motor.paso = "calculado"
  /\ motor' = MotorInicial
  /\ UNCHANGED <<principal_sin_motor, concurrente>>

NextMotor ==
  \/ MotorClasificar
  \/ MotorNegociar
  \/ MotorMatriz
  \/ MotorCalcular
  \/ MotorOmitirCalculo
  \/ MotorDevolver

SpecMotor == Init /\ [][NextMotor]_vars

(***************************************************************************)
(* Properties                                                              *)
(***************************************************************************)
EnNegociacion ==
  pc \in {"neg_sembrado", "neg_evidencias", "neg_bucle", "neg_break", "neg_fin"}

TienePorcentajes(r) ==
  "porcentaje_a" \in DOMAIN r /\ "porcentaje_b" \in DOMAIN r

SinPorcentajes(r) ==
  "porcentaje_a" \notin DOMAIN r /\ "porcentaje_b" \notin DOMAIN r

ConsultaEnRango ==
  /\ pc = "matriz_fin"
  /\ circunstancia_a \in 1..15
  /\ circunstancia_b \in 1..15

\* C1 - Matrix totality: a lookup of a pair with both codes in 1..15 returns
\* one of vehiculo_a, vehiculo_b, compartida, no_aplica (never the error
\* outcome), and the percentages, when present, sum to exactly 100.
C1_MatrixTotality ==
  ConsultaEnRango =>
    /\ resultado.responsable \in {"vehiculo_a", "vehiculo_b", "compartida", "no_aplica"}
    /\ TienePorcentajes(resultado) =>
         resultado.porcentaje_a + resultado.porcentaje_b = 100

C1_Witness ==
  /\ ConsultaEnRango
  /\ circunstancia_a = 15 /\ circunstancia_b = 14
  /\ resultado.responsable = "vehiculo_b"
  /\ TienePorcentajes(resultado)

\* C2 - For an in-range pair the outcome is the one of the cell at row
\* circunstancia_a, column circunstancia_b (1-indexed, ordered): A gives
\* vehiculo_a (100,0), B gives vehiculo_b (0,100), C gives compartida (50,50),
\* NA gives no_aplica and NRD gives indeterminado, both without percentages.
C2_CellDeterminesOutcome ==
  ConsultaEnRango =>
    LET codigo == matriz[circunstancia_a][circunstancia_b]
    IN  /\ codigo = "A" =>
             /\ resultado.responsable = "vehiculo_a"
             /\ TienePorcentajes(resultado)
             /\ resultado.porcentaje_a = 100 /\ resultado.porcentaje_b = 0
        /\ codigo = "B" =>
             /\ resultado.responsable = "vehiculo_b"
             /\ TienePorcentajes(resultado)
             /\ resultado.porcentaje_a = 0 /\ resultado.porcentaje_b = 100
        /\ codigo = "C" =>
             /\ resultado.responsable = "compartida"
             /\ TienePorcentajes(resultado)
             /\ resultado.porcentaje_a = 50 /\ resultado.porcentaje_b = 50
        /\ codigo = "NA" =>
             resultado.responsable = "no_aplica" /\ SinPorcentajes(resultado)
        /\ codigo = "NRD" =>
             resultado.responsable = "indeterminado" /\ SinPorcentajes(resultado)
        /\ codigo \in {"A", "B", "C", "NA", "NRD"}

\* The table is not symmetric: (2,1) is A while (1,2) is B.
C2_Witness ==
  /\ ConsultaEnRango
  /\ circunstancia_a = 2 /\ circunstancia_b = 1
  /\ resultado.responsable = "vehiculo_a"
  /\ resultado.porcentaje_a = 100

\* C3 - A lookup with a circumstance outside 1..15 returns the error outcome:
\* no liability kind and no percentages.
C3_OutOfRangeFails ==
  (pc = "matriz_fin" /\ ~ (circunstancia_a \in 1..15 /\ circunstancia_b \in 1..15)) =>
    /\ resultado.responsable = "error"
    /\ resultado.responsable \notin
         {"vehiculo_a", "vehiculo_b", "compartida", "no_aplica", "indeterminado"}
    /\ SinPorcentajes(resultado)

C3_Witness ==
  /\ pc = "matriz_fin"
  /\ circunstancia_a = 0 /\ circunstancia_b = 5
  /\ resultado.responsable = "error"

\* C4 - lookup(4,5) is compartida (50,50), lookup(1,2) is vehiculo_b (0,100)
\* and lookup(1,1) is no_aplica.
C4_MatrixExamples ==
  pc = "matriz_fin" =>
    /\ (circunstancia_a = 4 /\ circunstancia_b = 5) =>
         /\ resultado.responsable = "compartida"
         /\ TienePorcentajes(resultado)
         /\ resultado.porcentaje_a = 50 /\ resultado.porcentaje_b = 50
    /\ (circunstancia_a = 1 /\ circunstancia_b = 2) =>
         /\ resultado.responsable = "vehiculo_b"
         /\ TienePorcentajes(resultado)
         /\ resultado.porcentaje_a = 0 /\ resultado.porcentaje_b = 100
    /\ (circunstancia_a = 1 /\ circunstancia_b = 1) =>
         resultado.responsable = "no_aplica"

C4_Witness ==
  /\ pc = "matriz_fin"
  /\ circunstancia_a = 1 /\ circunstancia_b = 2
  /\ resultado.responsable = "vehiculo_b"
  /\ resultado.porcentaje_b = 100

\* C5 (as claimed) - lookup(7,1) is vehiculo_b with percentages (0,100).
C5_Original ==
  (pc = "matriz_fin" /\ circunstancia_a = 7 /\ circunstancia_b = 1) =>
    /\ resultado.responsable = "vehiculo_b"
    /\ TienePorcentajes(resultado)
    /\ resultado.porcentaje_a = 0 /\ resultado.porcentaje_b = 100

\* C5 (amended) - lookup(7,1) is no_aplica and carries no percentages: the
\* cell at row 7, column 1 of the fixed table is NA.
C5_Lookup71NotApplicable ==
  (pc = "matriz_fin" /\ circunstancia_a = 7 /\ circunstancia_b = 1) =>
    /\ resultado.responsable = "no_aplica"
    /\ SinPorcentajes(resultado)

C5_Witness ==
  /\ pc = "matriz_fin"
  /\ circunstancia_a = 7 /\ circunstancia_b = 1
  /\ resultado.responsable = "no_aplica"

\* C6 - Negotiation boundedness: a call runs at most 5 blend rounds, the
\* returned iteration count is at most 5, and a result that did not converge
\* reports exactly 5 iterations.
C6_Boundedness ==
  /\ EnNegociacion => (rondas <= 5 /\ iteracion <= 5)
  /\ pc = "neg_fin" =>
       /\ resultado.iteraciones <= 5
       /\ (resultado.convergio = FALSE) => resultado.iteraciones = 5

C6_Witness ==
  /\ pc = "neg_fin"
  /\ resultado.convergio = FALSE
  /\ resultado.iteraciones = 5
  /\ rondas = 5

\* C7 - Negotiation percentage invariant: after the seed and after every
\* blend round, also a round whose rounding residual went to porcentaje_a,
\* porcentaje_a + porcentaje_b is exactly 100.
C7_SumIs100 ==
  EnNegociacion =>
    distribucion_actual.porcentaje_a + distribucion_actual.porcentaje_b = 100

\* A round has run and its rounded pair did not sum to 100.
C7_Witness ==
  /\ pc = "neg_bucle"
  /\ rondas >= 1
  /\ diferencia # 0
  /\ distribucion_actual.porcentaje_a + distribucion_actual.porcentaje_b = 100

\* C8 (as claimed) - Convergence rule: the loop stops as soon as a round
\* moves porcentaje_a by at most 5 points, so whenever one more round is about
\* to run the last round has moved porcentaje_a by more than 5 points.
C8_StopsWithin5Points ==
  (/\ pc = "neg_bucle" /\ rondas >= 1 /\ iteracion < 5
   /\ circunstancia_a \in 1..15 /\ circunstancia_b \in 1..15) =>
    Abs(distribucion_anterior.porcentaje_a - distribucion_actual.porcentaje_a) > 5

\* C9 - Final classification: porcentaje_a >= 90 gives vehiculo_a, else
\* porcentaje_b >= 90 gives vehiculo_b, else compartida; the result carries
\* the final distribution itself.
C9_FinalClassification ==
  pc = "neg_fin" =>
    /\ resultado.porcentaje_a = distribucion_actual.porcentaje_a
    /\ resultado.porcentaje_b = distribucion_actual.porcentaje_b
    /\ distribucion_actual.porcentaje_a >= 90 => resultado.responsable = "vehiculo_a"
    /\ (distribucion_actual.porcentaje_a < 90 /\ distribucion_actual.porcentaje_b >= 90) =>
         resultado.responsable = "vehiculo_b"
    /\ (distribucion_actual.porcentaje_a < 90 /\ distribucion_actual.porcentaje_b < 90) =>
         resultado.responsable = "compartida"

C9_Witness ==
  /\ pc = "neg_fin"
  /\ resultado.responsable = "vehiculo_a"
  /\ resultado.porcentaje_a = 90
  /\ resultado.porcentaje_b = 10

\* C10 - Negotiation seed: with wA, wB the severity weights of the two
\* circumstances, the seed has porcentaje_a = round(wB / (wA + wB) * 100), the
\* nearest integer and the even one at an exact half, and
\* porcentaje_b = 100 - porcentaje_a.
C10_Seed ==
  (pc = "neg_sembrado" /\ circunstancia_a \in 1..15 /\ circunstancia_b \in 1..15) =>
    LET wA == pesos[circunstancia_a]
        wB == pesos[circunstancia_b]
        p == distribucion_actual.porcentaje_a
        desvio == 2 * Abs(p * (wA + wB) - 100 * wB)
    IN  /\ desvio <= wA + wB
        /\ desvio = wA + wB => p % 2 = 0
        /\ distribucion_actual.porcentaje_b = 100 - p

\* 6 / (10 + 6) * 100 is 37.5, an exact half.
C10_Witness ==
  /\ pc = "neg_sembrado"
  /\ circunstancia_a = 13 /\ circunstancia_b = 9
  /\ distribucion_actual.porcentaje_a = 38
  /\ distribucion_actual.porcentaje_b = 62

\* The shares of one blend round before normalisation, in units of
\* 1 / (20 * peso_evidencias.den * peso_documentos.den):
\*   0.5 * pct + 0.3 * (evidence weight * 100) + 0.2 * (document weight * 100)
BrutoA ==
  10 * distribucion_actual.porcentaje_a * peso_evidencias.den * peso_documentos.den
    + 6 * 100 * peso_evidencias.peso_a * peso_documentos.den
    + 4 * 100 * peso_documentos.peso_a * peso_evidencias.den

BrutoB ==
  10 * distribucion_actual.porcentaje_b * peso_evidencias.den * peso_documentos.den
    + 6 * 100 * peso_evidencias.peso_b * peso_documentos.den
    + 4 * 100 * peso_documentos.peso_b * peso_evidencias.den

\* n is an integer nearest to 100 * parte / total.
EsRedondeoDe(n, parte, total) == 2 * Abs(n * total - 100 * parte) <= total

\* C11 - Blend round: one round computes for each party
\* raw = 0.5 * pct + 0.3 * (evidence weight * 100) + 0.2 * (document weight * 100),
\* rounds raw / (rawA + rawB) * 100 for each, and adds what the two rounded
\* values lack to 100 to porcentaje_a only; porcentaje_b stays as rounded.
C11_BlendRound ==
  [][(rondas' = rondas + 1 /\ BrutoA + BrutoB > 0) =>
       /\ EsRedondeoDe(distribucion_actual'.porcentaje_b, BrutoB, BrutoA + BrutoB)
       /\ EsRedondeoDe(distribucion_actual'.porcentaje_a - diferencia', BrutoA,
                       BrutoA + BrutoB)
       /\ diferencia' = 100 - ((distribucion_actual'.porcentaje_a - diferencia')
                                 + distribucion_actual'.porcentaje_b)]_vars

\* From 50/50 with one piece of evidence of confidence 1.0 that blames B:
\* raw = (25 + 30, 25), shares 68.75 and 31.25.
C11_Witness ==
  /\ pc = "neg_bucle"
  /\ rondas = 1
  /\ distribucion_anterior = [porcentaje_a |-> 50, porcentaje_b |-> 50]
  /\ peso_evidencias = [peso_a |-> 20, peso_b |-> 0, den |-> 20, total |-> 1]
  /\ peso_documentos.total = 0
  /\ distribucion_actual = [porcentaje_a |-> 69, porcentaje_b |-> 31]

\* C12 (as claimed) - A negotiation whose evidence or document input yields a
\* negative weight fails: it returns an error and no liability outcome.
C12_NegativeWeightFails ==
  (/\ pc = "neg_fin"
   /\ \/ peso_evidencias.peso_a < 0 \/ peso_evidencias.peso_b < 0
      \/ peso_documentos.peso_a < 0 \/ peso_documentos.peso_b < 0) =>
    /\ resultado.responsable = "error"
    /\ SinPorcentajes(resultado)

\* C13 (as claimed) - Calculator rejection: a calcular_indemnizacion call with
\* an outcome of kind no_aplica or indeterminado produces no indemnification
\* result, neither line items nor a summary.
C13_NoLiabilityRejected ==
  (/\ pc = "calc_fin"
   /\ responsabilidad.responsable \in {"no_aplica", "indeterminado"}) =>
    indemnizacion = SinIndemnizacion

(***************************************************************************)
(* The calculator                                                          *)
(***************************************************************************)
PagoAB == indemnizacion.indemnizaciones[1]
PagoBA == indemnizacion.indemnizaciones[2]
DanosA == Get(Get(danos, "vehiculo_a", DictVacio), "monto", 0)
DanosB == Get(Get(danos, "vehiculo_b", DictVacio), "monto", 0)

\* A calculation has returned for an outcome that carries percentages.
CalculoConPorcentajes ==
  /\ pc = "calc_fin"
  /\ TienePorcentajes(responsabilidad)

\* centavos is a nearest number of hundredths to milesimas / 1000.
EsCentavosDe(centavos, milesimas) == Abs(10 * centavos - milesimas) <= 5

\* C14 - Cross-payment formula: for an outcome with percentages the gross
\* A-to-B payment is (pctA/100) * damageB * coverageFactorA and the gross
\* B-to-A payment is (pctB/100) * damageA * coverageFactorB, each reported to
\* the nearest hundredth; the first line item has payer A, payee B and reports
\* the factor of policy A, the second has payer B, payee A and reports the
\* factor of policy B.
C14_CrossPayment ==
  CalculoConPorcentajes =>
    /\ Len(indemnizacion.indemnizaciones) = 2
    /\ PagoAB.pagador = "vehiculo_a" /\ PagoAB.receptor = "vehiculo_b"
    /\ PagoAB.factor_cobertura = _calcular_factor_cobertura(poliza_a)
    /\ EsCentavosDe(PagoAB.monto_bruto,
                    responsabilidad.porcentaje_a * DanosB * PagoAB.factor_cobertura)
    /\ PagoBA.pagador = "vehiculo_b" /\ PagoBA.receptor = "vehiculo_a"
    /\ PagoBA.factor_cobertura = _calcular_factor_cobertura(poliza_b)
    /\ EsCentavosDe(PagoBA.monto_bruto,
                    responsabilidad.porcentaje_b * DanosA * PagoBA.factor_cobertura)

\* 38% of 155 at factor 0.9 is 53.01; 62% of 155 at factor 1.0 is 96.10.
C14_Witness ==
  /\ CalculoConPorcentajes
  /\ responsabilidad.porcentaje_a = 38 /\ responsabilidad.porcentaje_b = 62
  /\ DanosA = 155 /\ DanosB = 155
  /\ poliza_a = [tipo_cobertura |-> "estandar"]
  /\ poliza_b = [tipo_cobertura |-> "premium"]
  /\ PagoAB.monto_bruto = 5301 /\ PagoBA.monto_bruto = 9610

\* The factor the claim gives a policy, in tenths.
FactorSegunTier(poliza) ==
  IF "tipo_cobertura" \notin DOMAIN poliza THEN 7
  ELSE IF poliza.tipo_cobertura = "premium" THEN 10
  ELSE IF poliza.tipo_cobertura = "estandar" THEN 9
  ELSE IF poliza.tipo_cobertura = "basica" THEN 8
  ELSE 7

\* C15 (as claimed) - Coverage factor: for every policy, one that names no
\* tier included, the factor is 1.0 for premium, 0.9 for estandar, 0.8 for
\* basica and 0.7 for anything else.
C15_CoverageFactor ==
  pc = "calc_fin" =>
    /\ PagoAB.factor_cobertura = FactorSegunTier(poliza_a)
    /\ PagoBA.factor_cobertura = FactorSegunTier(poliza_b)

\* The exact gross payments, as fractions.
BrutoAB ==
  Producto(Producto(Fraccion(responsabilidad.porcentaje_a, 100), Entero(DanosB)),
           Fraccion(PagoAB.factor_cobertura, 10))
BrutoBA ==
  Producto(Producto(Fraccion(responsabilidad.porcentaje_b, 100), Entero(DanosA)),
           Fraccion(PagoBA.factor_cobertura, 10))

\* max(pago * deductiblePct / 100, deductibleMinimum) under the terms of poliza.
DeducibleSegun(poliza, pago) ==
  LET porcentual == Producto(pago, Fraccion(Get(poliza, "deducible_porcentaje", 0), 100))
      minimo == Entero(Get(poliza, "deducible_minimo", 0))
  IN  IF MenorQue(porcentual, minimo) THEN minimo ELSE porcentual

\* C16 - Deductible: the deductible of each payment is
\* max(payment * deductiblePct/100, deductibleMinimum) under the terms of the
\* receiving party's policy: policy B's for the A-to-B payment, policy A's for
\* the B-to-A payment (reported to the nearest hundredth).
C16_Deductible ==
  CalculoConPorcentajes =>
    /\ PagoAB.deducible \in RoundCentavos(DeducibleSegun(poliza_b, BrutoAB))
    /\ PagoBA.deducible \in RoundCentavos(DeducibleSegun(poliza_a, BrutoBA))

\* Shared 50/50, damages 1,000,000 to A and 155 to B, both policies premium,
\* only policy B with deductible terms (10%, 50,000): the A-to-B payment of
\* 77.50 bears B's minimum 50,000.00 and the B-to-A payment of 500,000 bears
\* nothing.
C16_Witness ==
  /\ CalculoConPorcentajes
  /\ responsabilidad.porcentaje_a = 50
  /\ DanosA = 1000000 /\ DanosB = 155
  /\ poliza_a = [tipo_cobertura |-> "premium"]
  /\ poliza_b = [tipo_cobertura |-> "premium",
                 deducible_porcentaje |-> 10, deducible_minimo |-> 50000]
  /\ PagoAB.monto_bruto = 7750 /\ PagoAB.deducible = 5000000
  /\ PagoBA.monto_bruto = 50000000 /\ PagoBA.deducible = 0

\* Percentages in 0..100, damages and deductible terms not negative.
EntradasValidas ==
  /\ responsabilidad.porcentaje_a \in 0..100
  /\ responsabilidad.porcentaje_b \in 0..100
  /\ DanosA >= 0 /\ DanosB >= 0
  /\ \A poliza \in {poliza_a, poliza_b} :
       /\ Get(poliza, "deducible_porcentaje", 0) >= 0
       /\ Get(poliza, "deducible_minimo", 0) >= 0

\* The exact gross less the exact deductible, or zero where that is negative.
NetoSegun(pago, deducible) ==
  LET diferencia_exacta == Resta(pago, deducible)
  IN  IF diferencia_exacta.num < 0 THEN Entero(0) ELSE diferencia_exacta

\* C17 - Calculator non-negativity: for percentages in 0..100, non-negative
\* damages and non-negative deductible terms, both net amounts of the result
\* are max(0, gross - deductible), reported to the nearest hundredth, and are
\* not negative.
C17_NetNonNegative ==
  (CalculoConPorcentajes /\ EntradasValidas) =>
    /\ PagoAB.monto_neto >= 0
    /\ PagoBA.monto_neto >= 0
    /\ PagoAB.monto_neto
         \in RoundCentavos(NetoSegun(BrutoAB, DeducibleSegun(poliza_b, BrutoAB)))
    /\ PagoBA.monto_neto
         \in RoundCentavos(NetoSegun(BrutoBA, DeducibleSegun(poliza_a, BrutoBA)))

\* A gross payment of 77.50 under a deductible of 50,000 nets zero, while the
\* opposite payment of 450,000 under a deductible of 50,000 nets 400,000.
C17_Witness ==
  /\ CalculoConPorcentajes /\ EntradasValidas
  /\ PagoAB.monto_bruto = 7750 /\ PagoAB.deducible = 5000000
  /\ PagoAB.monto_neto = 0
  /\ PagoBA.monto_bruto = 45000000 /\ PagoBA.deducible = 5000000
  /\ PagoBA.monto_neto = 40000000

\* The claim processed end to end: circumstances 13 and 6 looked up in the
\* matrix, the outcome handed to the calculator, damage to B of 1,000,000.
Escenario13_6 ==
  /\ pc = "calc_fin"
  /\ circunstancia_a = 13 /\ circunstancia_b = 6
  /\ responsabilidad = resultado
  /\ DanosB = 1000000

TerminosDeducible(poliza) ==
  /\ Get(poliza, "deducible_porcentaje", 0) = 10
  /\ Get(poliza, "deducible_minimo", 0) = 50000

\* Sole liability of A at 100/0, gross 900,000, deductible 90,000, net 810,000.
Resultado13_6 ==
  /\ resultado.responsable = "vehiculo_a"
  /\ resultado.porcentaje_a = 100 /\ resultado.porcentaje_b = 0
  /\ PagoAB.pagador = "vehiculo_a"
  /\ PagoAB.monto_bruto = 90000000
  /\ PagoAB.deducible = 9000000
  /\ PagoAB.monto_neto = 81000000

\* C18 (as claimed) - End-to-end scenario: circumstances 13 and 6, damage to B
\* of 1,000,000 and policy A of tier estandar with deductible 10% and minimum
\* 50,000 yield gross 900,000, deductible 90,000 and net 810,000 for the
\* A-to-B payment.
C18_Original ==
  (/\ Escenario13_6
   /\ Get(poliza_a, "tipo_cobertura", "") = "estandar"
   /\ TerminosDeducible(poliza_a)) => Resultado13_6

\* C18 (amended) - End-to-end scenario: circumstances 13 and 6, damage to B of
\* 1,000,000, policy A of tier estandar and policy B with deductible 10% and
\* minimum 50,000 yield gross 900,000, deductible 90,000 and net 810,000 for
\* the A-to-B payment.
C18_EndToEnd ==
  (/\ Escenario13_6
   /\ Get(poliza_a, "tipo_cobertura", "") = "estandar"
   /\ TerminosDeducible(poliza_b)) => Resultado13_6

C18_Witness ==
  /\ Escenario13_6
  /\ poliza_a = [tipo_cobertura |-> "estandar"]
  /\ TerminosDeducible(poliza_b)
  /\ Resultado13_6

(***************************************************************************)
(* Two callers on one instance                                             *)
(***************************************************************************)
EnFin(i) == llamadas[i].pc = "fin"

\* C19 - Determinism: two calls of the same operation (matrix lookup,
\* negociar, calcular_indemnizacion) with identical inputs return identical
\* results, whatever calls were made before them.
C19_Determinism ==
  \A i \in Llamadas, j \in Llamadas :
    (/\ EnFin(i) /\ EnFin(j)
     /\ llamadas[i].op = llamadas[j].op
     /\ llamadas[i].entrada = llamadas[j].entrada) =>
      llamadas[i].retorno = llamadas[j].retorno

\* The first call of caller 1 and a later call of caller 2, both
\* negociar(1, 1, ...) with the evidence against A and the document against
\* B, have both returned 41/59 after 5 iterations without convergence.
C19_Witness ==
  /\ EnFin(1) /\ EnFin(2)
  /\ llamadas[1].previas = 0 /\ llamadas[2].previas = 1
  /\ llamadas[1].op = "negociar" /\ llamadas[2].op = "negociar"
  /\ llamadas[1].entrada = llamadas[2].entrada
  /\ llamadas[1].entrada.circunstancia_a = 1
  /\ llamadas[1].entrada.evidencias = <<EvidenciaContraA>>
  /\ llamadas[2].retorno.porcentaje_a = 41
  /\ llamadas[2].retorno.iteraciones = 5
  /\ ~ llamadas[2].retorno.convergio

\* The loop of caller i's negociar call, were it running alone.
RecorridoSolo(i) ==
  LET e == llamadas[i].entrada
  IN  Iterar(Distribucion(_distribucion_inicial(e.circunstancia_a, e.circunstancia_b)),
             _calcular_peso_evidencias(e.evidencias),
             _calcular_peso_documentos(e.documentos), 0)

\* Caller i's negociar call is where a call running alone would be.
ComoSolo(i) ==
  LET e == llamadas[i].entrada
      marco == marcos[MarcoDe(i)]
      recorrido == RecorridoSolo(i)
  IN  /\ llamadas[i].pc \in {"bucle", "break"} =>
           \E k \in 1..Len(recorrido) :
             /\ recorrido[k].distribucion_actual = marco.distribucion_actual
             /\ recorrido[k].iteracion = marco.iteracion
      /\ llamadas[i].pc = "fin" =>
           llamadas[i].retorno =
             negociar(e.circunstancia_a, e.circunstancia_b, e.documentos, e.evidencias)

\* A step of one caller leaves the other caller's call and frame alone.
PasoAislado ==
  \A i \in Llamadas :
    llamadas'[i] # llamadas[i] =>
      \A j \in Llamadas \ {i} :
        llamadas'[j] = llamadas[j] /\ marcos'[j] = marcos[j]

\* C20 - No shared mutable state: with the steps of two negociar calls on one
\* instance interleaved in any order, each call's distribution, iteration
\* counter and result are those of the call running alone, and no step of one
\* call writes a variable of the other.
C20_NoSharedState ==
  /\ [](\A i \in Llamadas : llamadas[i].op = "negociar" => ComoSolo(i))
  /\ [][PasoAislado]_vars

\* Two calls for different claims, both in the middle of the loop: the one
\* for circumstances (1, 1) at 45/55 after two rounds, the one for (13, 9) at
\* 39/61 after one.
C20_Witness ==
  /\ llamadas[1].op = "negociar" /\ llamadas[2].op = "negociar"
  /\ llamadas[1].pc = "bucle" /\ llamadas[2].pc = "bucle"
  /\ llamadas[1].entrada.circunstancia_a = 1
  /\ llamadas[2].entrada.circunstancia_a = 13
  /\ llamadas[1].entrada.evidencias = <<EvidenciaContraA>>
  /\ llamadas[2].entrada.evidencias = <<EvidenciaContraA>>
  /\ marcos[1].iteracion = 2 /\ marcos[1].distribucion_actual.porcentaje_a = 45
  /\ marcos[2].iteracion = 1 /\ marcos[2].distribucion_actual.porcentaje_a = 39

Resuelto == motor.paso \in {"resuelto", "calculado"}

ConResponsabilidad ==
  motor.resultado_responsabilidad.responsable \in {"vehiculo_a", "vehiculo_b", "compartida"}

SinResponsabilidad ==
  motor.resultado_responsabilidad.responsable \in {"no_aplica", "indeterminado"}

\* C22 - Resolution ordering: a claim is resolved by negociar exactly when
\* its dispute flag is true and by the matrix lookup otherwise, never by both;
\* the calculator is invoked after that, for every outcome that carries
\* liability and for no outcome of kind no_aplica or indeterminado.
C22_ResolutionOrdering ==
  /\ Resuelto =>
       /\ motor.invocados[1] =
            IF "disputa" \in DOMAIN motor.siniestro /\ motor.siniestro.disputa
              THEN "negociar" ELSE "matriz"
       /\ \A k \in 2..Len(motor.invocados) : motor.invocados[k] = "calcular"
  /\ motor.paso = "resuelto" => Len(motor.invocados) = 1
  /\ (motor.paso = "calculado" /\ ConResponsabilidad) =>
       /\ motor.invocados[2] = "calcular" /\ Len(motor.invocados) = 2
       /\ motor.indemnizacion # SinIndemnizacion
  /\ (motor.paso = "calculado" /\ SinResponsabilidad) =>
       /\ Len(motor.invocados) = 1
       /\ motor.indemnizacion = SinIndemnizacion

\* A disputed claim with circumstances 13 and 6, resolved by negociar alone
\* and then calculated.
C22_Witness ==
  /\ motor.paso = "calculado"
  /\ UsaNegociador(motor.siniestro)
  /\ motor.circunstancia_a = 13 /\ motor.circunstancia_b = 6
  /\ motor.invocados = <<"negociar", "calcular">>
  /\ motor.resultado_responsabilidad.porcentaje_a = 41
  /\ motor.indemnizacion.indemnizaciones[1].monto_bruto = 36900000

(***************************************************************************)
(* The loop of negociar, continued                                         *)
(***************************************************************************)
\* C23 - Converged flag: the flag negociar returns is true exactly when the
\* convergence check passed in a round of the call, the 5th included, and
\* false exactly when all 5 rounds ran and none passed.
C23_ConvergedFlag ==
  [][(pc' = "neg_fin" /\ pc # "neg_fin") =>
       /\ resultado'.convergio <=> pc = "neg_break"
       /\ pc = "neg_break" =>
            /\ rondas \in 1..5
            /\ 100 * Abs(distribucion_anterior.porcentaje_a
                           - distribucion_actual.porcentaje_a) <= 5
       /\ ~ resultado'.convergio => rondas = 5]_vars

\* The check passed in the 5th round and the flag is true.
C23_Witness ==
  /\ pc = "neg_fin"
  /\ rondas = 5
  /\ distribucion_anterior = distribucion_actual
  /\ resultado.convergio

\* C26 (as claimed) - Iteration count: the iteration count negociar returns
\* is the number of blend rounds the call executed, on convergence and on
\* exhaustion of the budget alike.
C26_IterationsAreRounds ==
  pc = "neg_fin" => resultado.iteraciones = rondas

\* One blend round on an unrounded share x, with no evidence and one counted
\* document: (x * 0.5 + peso * 100 * 0.2) / total * 100, where the document
\* weight is peso / 20 and total is the sum of both blended shares.
RondaSinRedondear(x, peso, total) ==
  Fraccion(50 * x.num + 100 * peso * x.den, total * x.den)

\* k such rounds, one after another.
RECURSIVE RondasSinRedondear(_, _, _, _)
RondasSinRedondear(x, peso, total, k) ==
  IF k = 0 THEN x
  ELSE RondasSinRedondear(RondaSinRedondear(x, peso, total), peso, total, k - 1)

\* B's share after the rounds of the call, had they run on unrounded shares.
ParteBSinRedondear ==
  RondasSinRedondear(
    Entero(_distribucion_inicial(circunstancia_a, circunstancia_b).porcentaje_b),
    peso_documentos.peso_b,
    50 + peso_documentos.peso_a + peso_documentos.peso_b,
    rondas)

\* C24 (as claimed) - Rounding only at finalization: the final percentages of
\* negociar are those of the same rounds run on unrounded shares and rounded
\* once at the end.  Stated for the calls with no contributing evidence and
\* one counted document.
C24_RoundOnlyAtEnd ==
  (/\ pc = "neg_fin"
   /\ circunstancia_a \in 1..15 /\ circunstancia_b \in 1..15
   /\ peso_evidencias.total = 0
   /\ peso_documentos.total = 1) =>
    /\ resultado.porcentaje_b \in RoundFlotante(ParteBSinRedondear.num,
                                                ParteBSinRedondear.den)
    /\ resultado.porcentaje_a = 100 - resultado.porcentaje_b

(***************************************************************************)
(* The seed and the matrix                                                 *)
(***************************************************************************)
Sembrado ==
  /\ pc = "neg_sembrado"
  /\ circunstancia_a \in 1..15
  /\ circunstancia_b \in 1..15

\* C25 (as claimed) - The seed depends on the matrix: a pair whose matrix
\* cell is A is not seeded with pctA < pctB, and two pairs with equal severity
\* weights and different matrix cells do not get the same seed.
C25_SeedFromMatrix ==
  Sembrado =>
    /\ Celda(circunstancia_a, circunstancia_b) = "A" =>
         distribucion_actual.porcentaje_a >= distribucion_actual.porcentaje_b
    /\ \A ca \in 1..15, cb \in 1..15 :
         (/\ PesoDe(ca) = PesoDe(circunstancia_a)
          /\ PesoDe(cb) = PesoDe(circunstancia_b)
          /\ Celda(ca, cb) # Celda(circunstancia_a, circunstancia_b)) =>
           Distribucion(_distribucion_inicial(ca, cb)) # distribucion_actual

(***************************************************************************)
(* A negotiation with nothing to weigh                                     *)
(***************************************************************************)
\* Both weight summaries of the running call are (0, 0).
SinAporte ==
  /\ pc \in {"neg_bucle", "neg_break", "neg_fin"}
  /\ peso_evidencias.peso_a = 0 /\ peso_evidencias.peso_b = 0
  /\ peso_documentos.peso_a = 0 /\ peso_documentos.peso_b = 0

Semilla == Distribucion(_distribucion_inicial(circunstancia_a, circunstancia_b))

\* C27 - When both weight summaries are (0, 0) the one blend round that runs
\* leaves the distribution as it was and passes the convergence test, and
\* negociar returns the seed of the pair with convergio true, whatever the
\* pair.
C27_NoInputKeepsSeed ==
  SinAporte =>
    /\ distribucion_actual = Semilla
    /\ pc = "neg_bucle" => rondas = 0
    /\ pc \in {"neg_break", "neg_fin"} =>
         /\ rondas = 1
         /\ distribucion_anterior = Semilla
    /\ pc = "neg_fin" =>
         /\ resultado.porcentaje_a = Semilla.porcentaje_a
         /\ resultado.porcentaje_b = Semilla.porcentaje_b
         /\ resultado.convergio

\* An unprocessed piece of evidence was the only input for the pair (13, 9),
\* and the seed 38/62 came back after one round.
C27_Witness ==
  /\ SinAporte
  /\ pc = "neg_fin"
  /\ circunstancia_a = 13 /\ circunstancia_b = 9
  /\ resultado.porcentaje_a = 38 /\ resultado.porcentaje_b = 62
  /\ resultado.convergio
  /\ rondas = 1

(***************************************************************************)
(* Direction of the evidence                                               *)
(***************************************************************************)
\* The call ended with one processed piece of evidence as its only
\* contributing input: no document was counted.
UnaEvidencia ==
  /\ pc = "neg_fin"
  /\ peso_documentos.total = 0
  /\ peso_evidencias.total = 1

\* The piece of evidence suggested vehicle A with a positive confidence: the
\* pass of _calcular_peso_evidencias leaves peso_a at 0 and peso_b positive
\* for such a piece and for no other.
SoloContraA == UnaEvidencia /\ peso_evidencias.peso_a = 0 /\ peso_evidencias.peso_b > 0
SoloContraB == UnaEvidencia /\ peso_evidencias.peso_b = 0 /\ peso_evidencias.peso_a > 0

\* C28 (as claimed) - When the only contributing input blames vehicle A with
\* a positive confidence, the share of A that negociar returns is not lower
\* than the seed's share of A, and likewise for vehicle B.
C28_EvidenceDirection ==
  /\ SoloContraA => resultado.porcentaje_a >= Semilla.porcentaje_a
  /\ SoloContraB => resultado.porcentaje_b >= Semilla.porcentaje_b

(***************************************************************************)
(* What a negotiation can hold and return                                  *)
(***************************************************************************)
\* A weight summary of items whose confidences lie in [0, 1]: both averages
\* lie in [0, 1].
PesoEnUnidad(p) ==
  /\ 0 <= p.peso_a /\ p.peso_a <= p.den
  /\ 0 <= p.peso_b /\ p.peso_b <= p.den

\* A negotiation of a pair of the table whose summaries, as far as the call
\* has computed them, come from such items.
NegociacionValida ==
  /\ EnNegociacion
  /\ circunstancia_a \in 1..15 /\ circunstancia_b \in 1..15
  /\ pc # "neg_sembrado" => PesoEnUnidad(peso_evidencias)
  /\ pc \notin {"neg_sembrado", "neg_evidencias"} => PesoEnUnidad(peso_documentos)

PorcentajesValidos(d) == d.porcentaje_a \in 0..100 /\ d.porcentaje_b \in 0..100

\* C29 - For pairs in 1..15 and confidences in [0, 1], both shares are
\* integers in 0..100 in every state of negociar, and the result is
\* vehiculo_a, vehiculo_b or compartida with both percentages present, never
\* no_aplica, indeterminado or error, whatever the matrix cell of the pair.
C29_NegotiationRange ==
  NegociacionValida =>
    /\ PorcentajesValidos(distribucion_actual)
    /\ rondas > 0 => PorcentajesValidos(distribucion_anterior)
    /\ pc = "neg_fin" =>
         /\ resultado.responsable \in {"vehiculo_a", "vehiculo_b", "compartida"}
         /\ TienePorcentajes(resultado)
         /\ PorcentajesValidos(resultado)

\* The pair (7, 1), whose matrix cell is NA, negotiated with one processed
\* piece of evidence of confidence 1.0: the result is vehiculo_a at 96/4.
C29_Witness ==
  /\ NegociacionValida
  /\ pc = "neg_fin"
  /\ circunstancia_a = 7 /\ circunstancia_b = 1
  /\ Celda(7, 1) = "NA"
  /\ peso_evidencias = [peso_a |-> 20, peso_b |-> 0, den |-> 20, total |-> 1]
  /\ resultado.responsable = "vehiculo_a"
  /\ resultado.porcentaje_a = 96 /\ resultado.porcentaje_b = 4

(***************************************************************************)
(* The three amounts of a payment line                                     *)
(***************************************************************************)
Lineas == {PagoAB, PagoBA}

\* The share of the payer of a line item, as the calculator reads it.
PorcentajeDe(pago) ==
  IF pago.pagador = "vehiculo_a" THEN Get(responsabilidad, "porcentaje_a", 0)
  ELSE Get(responsabilidad, "porcentaje_b", 0)

\* The policy of the party a line item pays.
PolizaReceptora(pago) == IF pago.receptor = "vehiculo_a" THEN poliza_a ELSE poliza_b

\* C30 (as claimed) - In every payment line item the reported deductible
\* does not exceed the reported gross amount and the net is the gross less
\* the deductible; a payer with 0% liability has gross, deductible and net
\* all 0.
C30_Original ==
  pc = "calc_fin" =>
    \A pago \in Lineas :
      /\ pago.deducible <= pago.monto_bruto
      /\ pago.monto_neto = pago.monto_bruto - pago.deducible
      /\ PorcentajeDe(pago) = 0 =>
           pago.monto_bruto = 0 /\ pago.deducible = 0 /\ pago.monto_neto = 0

\* max(0, x) of an amount in hundredths.
NoNegativo(x) == IF x < 0 THEN 0 ELSE x

\* C30 (amended) - In every payment line item the reported deductible is at
\* least the minimum deductible of the receiving party's policy and may
\* exceed the reported gross amount; the reported net is, to the cent of
\* rounding, max(0, gross - deductible), so it is 0 whenever the deductible
\* exceeds the gross by more than a cent; a payer with 0% liability has
\* gross 0, net 0 and as deductible the receiving policy's minimum, which is
\* 0 only for a policy that names none.
C30_LineItems ==
  (pc = "calc_fin" /\ (TienePorcentajes(responsabilidad) => EntradasValidas)) =>
    \A pago \in Lineas :
      LET minimo == 100 * Get(PolizaReceptora(pago), "deducible_minimo", 0)
      IN  /\ pago.deducible >= minimo
          /\ Abs(pago.monto_neto - NoNegativo(pago.monto_bruto - pago.deducible)) <= 1
          /\ pago.deducible > pago.monto_bruto + 1 => pago.monto_neto = 0
          /\ PorcentajeDe(pago) = 0 =>
               /\ pago.monto_bruto = 0
               /\ pago.monto_neto = 0
               /\ pago.deducible = minimo

\* Vehicle A alone liable, damages of 1,000,000 to each, policy A with
\* deductible terms (10%, 50,000): the B-to-A line has payer B at 0% with
\* gross 0, deductible 50,000.00 and net 0.
C30_Witness ==
  /\ pc = "calc_fin"
  /\ responsabilidad.responsable = "vehiculo_a"
  /\ TienePorcentajes(responsabilidad)
  /\ responsabilidad.porcentaje_a = 100 /\ responsabilidad.porcentaje_b = 0
  /\ DanosA = 1000000 /\ DanosB = 1000000
  /\ Get(poliza_a, "deducible_minimo", 0) = 50000
  /\ PagoBA.pagador = "vehiculo_b"
  /\ PagoBA.monto_bruto = 0 /\ PagoBA.deducible = 5000000 /\ PagoBA.monto_neto = 0
====
